---- MODULE Spec2Model ----
(***************************************************************************)
(* Model of the BR_FireRisk_Dashboard preprocessing pipeline:              *)
(*   src/src/utils.py                          risk index calculators      *)
(*   src/src/data_preprocessing/inmet_*.py     per-station daily climate   *)
(*   src/src/data_preprocessing/inpe_*.py      events and nearest station  *)
(*   src/src/data_preprocessing/merge_*.py     climate/event merge         *)
(*                                                                         *)
(* Numbers are fixed point: one unit is 0.001 of the source's unit (a      *)
(* temperature of 27.0 is 27000, a coordinate of -30.00 degrees is         *)
(* -30000).  A pandas table is a sequence of records whose fields carry    *)
(* the column names; position p of the sequence has RangeIndex label       *)
(* p - 1.  A pandas bool is the integer 1 or 0; a missing value is NaN.    *)
(***************************************************************************)
EXTENDS Integers, Sequences, FiniteSets, TLC

VARIABLES
    pc,            \* position of the running handler
    df,            \* the table the current handler works on / returned
    raw,           \* rows read from the current unit's raw files
    station,       \* loop variable of process_and_save_inmet_climate_data
    month,         \* loop variable of process_and_save_inpe_hotspots_daily_data
    written,       \* units whose table was saved with to_csv
    stations_info, \* inmet_stations_info_df
    inmet_df,      \* merge input: concatenated daily climate rows
    inpe_df        \* merge input: concatenated annotated event rows

vars == <<pc, df, raw, station, month, written, stations_info, inmet_df, inpe_df>>

(***************************************************************************)
(* Missing values and NaN-aware arithmetic (numpy float semantics).        *)
(***************************************************************************)
\* np.nan: the value that replaces the -9999 sentinel
NaN == -999900000

\* a missing value in a column of strings (object dtype)
NaS == "NaN"

isna(x) == x = NaN

Sub(a, b) == IF isna(a) \/ isna(b) THEN NaN ELSE a - b

Add(a, b) == IF isna(a) \/ isna(b) THEN NaN ELSE a + b

\* a / k for a literal k > 0
Div(a, k) == IF isna(a) THEN NaN ELSE a \div k

\* comparisons with NaN are False
Gt(a, b) == ~isna(a) /\ a > b

Ge(a, b) == ~isna(a) /\ a >= b

Le(a, b) == ~isna(a) /\ a <= b

\* Python bool | bool on 1/0
BoolOr(a, b) == IF a = 1 \/ b = 1 THEN 1 ELSE 0

\* round half to even to a multiple of 10 units (two decimals)
Round2(x) ==
    IF isna(x) THEN NaN
    ELSE LET lo == (x \div 10) * 10
             r  == x - lo
         IN  IF r < 5 THEN lo
             ELSE IF r > 5 THEN lo + 10
             ELSE IF (lo \div 10) % 2 = 0 THEN lo ELSE lo + 10

\* 1000 * log10(d) for d = 1..9
Log10Mantissa == <<0, 301, 477, 602, 699, 778, 845, 903, 954>>

\* np.log10 of a positive x (or NaN); the mantissa is taken to one digit
RECURSIVE log10(_)
log10(x) ==
    IF isna(x) THEN NaN
    ELSE IF x >= 10000 THEN 1000 + log10(x \div 10)
    ELSE IF x < 1000 THEN log10(x * 10) - 1000
    ELSE Log10Mantissa[x \div 1000]

\* df[col] = values: add or overwrite the fields of `new` in row r
SetCols(r, new) == new @@ r

(***************************************************************************)
(* utils.py: calculate_angstrom_risk                                       *)
(***************************************************************************)
calculate_angstrom_risk_rate_strict(index) ==
    IF Gt(index, 4000) THEN "Improvavel"
    ELSE IF Gt(index, 2500) THEN "Desfavoravel"
    ELSE IF Ge(index, 2000) THEN "Favoravel"
    ELSE "Provavel"

calculate_angstrom_risk_rate(index) ==
    IF Gt(index, 4000) THEN "Improvavel"
    ELSE IF Ge(index, 2500) THEN "Desfavoravel"
    ELSE IF Ge(index, 2000) THEN "Favoravel"
    ELSE "Provavel"

angstrom_index(row) ==
    Add(Div(row.umidade_relativa_13, 20),
        Div(Sub(row.temperatura_ar_13, 27000), 10))

\* Series | Series on two flag columns: a missing flag counts as False
FlagOr(a, b) == BoolOr(IF isna(a) THEN 0 ELSE a, IF isna(b) THEN 0 ELSE b)

calculate_angstrom_risk(t) ==
    [p \in 1..Len(t) |->
        SetCols(t[p],
            [angstrom_index |-> angstrom_index(t[p]),
             angstrom_risk |-> calculate_angstrom_risk_rate(angstrom_index(t[p])),
             angstrom_interpolacao |->
                 FlagOr(t[p].umidade_relativa_interpolacao_13,
                        t[p].temperatura_ar_interpolacao_13)])]

(***************************************************************************)
(* utils.py: calculate_telicyn_risk                                        *)
(***************************************************************************)
calculate_telicyn_risk_rate(index) ==
    IF Le(index, 2000) THEN "Nenhum"
    ELSE IF Le(index, 3500) THEN "Pequeno"
    ELSE IF Le(index, 5000) THEN "Medio"
    ELSE "Alto"

\* the flag column is of bool dtype when no flag is missing
IsBoolColumn(t) == \A p \in 1..Len(t) : ~isna(t[p].temperatura_ar_interpolacao_13)

\* line 46: flag column | dew point VALUE column.  With an object (not
\* bool) flag column pandas combines element by element and Python cannot
\* or a bool with a float: TypeError.
telicyn_flag_raises(t) ==
    /\ ~IsBoolColumn(t)
    /\ \E p \in 1..Len(t) :
          /\ ~isna(t[p].temperatura_ar_interpolacao_13)
          /\ ~isna(t[p].temperatura_ponto_orvalho_13)

\* the float operand is cast to bool: NaN and 0.0 are False
Truthy(x) == IF isna(x) \/ x = 0 THEN 0 ELSE 1

\* a missing flag stays missing through the element-wise or and is then
\* filled with False
telicyn_flag(row) ==
    IF isna(row.temperatura_ar_interpolacao_13) THEN 0
    ELSE BoolOr(row.temperatura_ar_interpolacao_13,
                Truthy(row.temperatura_ponto_orvalho_13))

telicyn_raw(row) ==
    LET diff == Sub(row.temperatura_ar_13, row.temperatura_ponto_orvalho_13)
    IN  IF Le(diff, 0) THEN 0 ELSE log10(diff)

\* line 50: `i - 1 > 0 and row['dias_sem_chuva'] > 0`, i the index label
carries_every_row(p, row) == (p - 1) > 0 /\ Gt(row.dias_sem_chuva, 0)

carries(p, row) == ((p - 1) - 1) > 0 /\ Gt(row.dias_sem_chuva, 0)

\* the table after the loop of lines 47-52 has handled rows 1..k
RECURSIVE telicyn_loop(_, _)
telicyn_loop(t, k) ==
    IF k = 0 THEN t
    ELSE LET prev == telicyn_loop(t, k - 1)
             row  == prev[k]
             raw_ == telicyn_raw(row)
         IN  IF carries(k, row)
             THEN [prev EXCEPT ![k] =
                     SetCols(row,
                        [telicyn_index |-> Add(raw_, prev[k - 1].telicyn_index),
                         telicyn_interpolacao |->
                             BoolOr(row.telicyn_interpolacao,
                                    prev[k - 1].telicyn_interpolacao)])]
             ELSE [prev EXCEPT ![k] = SetCols(row, [telicyn_index |-> raw_])]

calculate_telicyn_risk(t) ==
    LET init == [p \in 1..Len(t) |->
                    SetCols(t[p], [telicyn_index |-> NaN,
                                   telicyn_risk |-> NaS,
                                   telicyn_interpolacao |-> telicyn_flag(t[p])])]
        done == telicyn_loop(init, Len(t))
    IN  [p \in 1..Len(t) |->
            SetCols(done[p],
                [telicyn_risk |-> calculate_telicyn_risk_rate(done[p].telicyn_index)])]

(***************************************************************************)
(* inmet_preprocessing.py: __calculate_days_without_rain_inmet_data        *)
(***************************************************************************)
\* df['rained'] = df['precipitacao_total'] == 0
rained(row) == row.precipitacao_total = 0

\* cumcount + 1 within runs of equal `rained`
RECURSIVE dias_sem_chuva(_, _)
dias_sem_chuva(t, p) ==
    IF p = 1 THEN 1
    ELSE IF rained(t[p]) # rained(t[p - 1]) THEN 1
    ELSE dias_sem_chuva(t, p - 1) + 1

calculate_days_without_rain_inmet_data(t) ==
    [p \in 1..Len(t) |-> SetCols(t[p], [dias_sem_chuva |-> dias_sem_chuva(t, p)])]

(***************************************************************************)
(* inmet_preprocessing.py: extraction of one station's hourly readings     *)
(***************************************************************************)
INMET_CLIMATE_DATA_COLS ==
    {"precipitacao_total", "pressao_atmosferica", "temperatura_ar",
     "temperatura_ponto_orvalho", "umidade_relativa", "velocidade_vento"}

EXPECTED_INMET_DATA_COLS == {"data", "hora"} \cup INMET_CLIMATE_DATA_COLS

\* f"{col}_interpolacao", and the renames of __group_daily_inmet_data
ColumnNames ==
    { [col |-> "precipitacao_total", flag |-> "precipitacao_total_interpolacao",
       col13 |-> NaS, flag13 |-> "precipitacao_total_interpolacao_13"],
      [col |-> "pressao_atmosferica", flag |-> "pressao_atmosferica_interpolacao",
       col13 |-> "pressao_atmosferica_13", flag13 |-> "pressao_atmosferica_interpolacao_13"],
      [col |-> "temperatura_ar", flag |-> "temperatura_ar_interpolacao",
       col13 |-> "temperatura_ar_13", flag13 |-> "temperatura_ar_interpolacao_13"],
      [col |-> "temperatura_ponto_orvalho", flag |-> "temperatura_ponto_orvalho_interpolacao",
       col13 |-> "temperatura_ponto_orvalho_13",
       flag13 |-> "temperatura_ponto_orvalho_interpolacao_13"],
      [col |-> "umidade_relativa", flag |-> "umidade_relativa_interpolacao",
       col13 |-> "umidade_relativa_13", flag13 |-> "umidade_relativa_interpolacao_13"],
      [col |-> "velocidade_vento", flag |-> "velocidade_vento_interpolacao",
       col13 |-> "velocidade_vento_13", flag13 |-> "velocidade_vento_interpolacao_13"] }

NamesOf(col) == CHOOSE n \in ColumnNames : n.col = col

interpolacao_col(col) == NamesOf(col).flag

FlagCols == { n.flag : n \in ColumnNames }

\* the raw file's value for "no reading"
MissingSentinel == -9999000

\* 'nan', the string astype(str) makes of a missing cell; as a string it
\* sorts after every date 'YYYY-MM-DD' and every hour 'HH:MM'
NanStr == 99999999

\* line 77: raw_df.replace(['-9999', -9999], np.nan)
replace_sentinel(x) == IF x = MissingSentinel THEN NaN ELSE x

\* value.astype(str): a missing cell becomes the (non-missing) string 'nan'
astype_str(x) == IF isna(x) THEN NanStr ELSE x

\* __extract_inmet_data on one raw row, plus the metadata of lines 184-185
extract_inmet_data(r, code) ==
    [f \in DOMAIN r \cup {"codigo_estacao"} |->
        IF f = "codigo_estacao" THEN code
        ELSE IF f \in {"data", "hora"} THEN astype_str(replace_sentinel(r[f]))
        ELSE replace_sentinel(r[f])]

\* df[cols].isna().all(axis=0).all()
all_null(t, cols) == \A c \in cols : \A k \in 1..Len(t) : isna(t[k][c])

\* df.dropna(subset=['data', 'hora'])
dropna_data_hora(t) ==
    LET Keep(r) == ~isna(r.data) /\ ~isna(r.hora) IN SelectSeq(t, Keep)

\* df.sort_values(by=['data', 'hora']): stable, ascending
RowLeq(a, b) == a.data < b.data \/ (a.data = b.data /\ a.hora <= b.hora)

RECURSIVE sort_values(_)
sort_values(t) ==
    IF Len(t) <= 1 THEN t
    ELSE LET front == sort_values(SubSeq(t, 1, Len(t) - 1))
             x     == t[Len(t)]
             n     == Cardinality({ k \in 1..Len(front) : RowLeq(front[k], x) })
             \* front is sorted, so the rows <= x are its first n rows
         IN  SubSeq(front, 1, n) \o <<x>> \o SubSeq(front, n + 1, Len(front))

SetMax(S) == CHOOSE x \in S : \A y \in S : y <= x

SetMin(S) == CHOOSE x \in S : \A y \in S : x <= y

\* df[col].interpolate(method='linear', limit_direction='both') at row k:
\* rows are equally spaced; leading and trailing gaps take the nearest
\* observed value; a column with no observed value stays missing
interpolate(t, col, k) ==
    IF ~isna(t[k][col]) THEN t[k][col]
    ELSE LET before == { i \in 1..(k - 1) : ~isna(t[i][col]) }
             after  == { j \in (k + 1)..Len(t) : ~isna(t[j][col]) }
         IN  IF before # {} /\ after # {}
             THEN LET i == SetMax(before)
                      j == SetMin(after)
                  IN  t[i][col] + ((t[j][col] - t[i][col]) * (k - i)) \div (j - i)
             ELSE IF before # {} THEN t[SetMax(before)][col]
             ELSE IF after # {} THEN t[SetMin(after)][col]
             ELSE NaN

\* missing_before taken after the interpolation instead of before it
interpolacao_flag_missing_after(t, col, k) ==
    IF isna(interpolate(t, col, k)) THEN 1 ELSE 0

\* lines 204-208: flag = False | missing_before & df[col].notna()
interpolacao_flag(t, col, k) ==
    IF isna(t[k][col]) /\ ~isna(interpolate(t, col, k)) THEN 1 ELSE 0

\* the loop of lines 202-209 over the six climate columns
interpolate_climate(t) ==
    [k \in 1..Len(t) |->
        [f \in DOMAIN t[k] \cup FlagCols |->
            IF f \in INMET_CLIMATE_DATA_COLS THEN interpolate(t, f, k)
            ELSE IF f \in FlagCols
                 THEN interpolacao_flag(t, (CHOOSE n \in ColumnNames : n.flag = f).col, k)
            ELSE t[k][f]]]

(***************************************************************************)
(* inmet_preprocessing.py: __group_daily_inmet_data                        *)
(***************************************************************************)
\* pd.to_datetime(df['hora'], format='%H:%M').dt.hour: 'nan' gives NaT
to_hour(h) == IF h = NanStr THEN NaN ELSE h

RECURSIVE SortedSeqOf(_)
SortedSeqOf(S) ==
    IF S = {} THEN <<>>
    ELSE LET m == SetMin(S) IN <<m>> \o SortedSeqOf(S \ {m})

\* the non-missing values of column col, in row order
RECURSIVE NotNullSum(_, _)
NotNullSum(t, col) ==
    IF t = <<>> THEN 0
    ELSE (IF isna(t[1][col]) THEN 0 ELSE t[1][col]) + NotNullSum(Tail(t), col)

NotNullCount(t, col) == Cardinality({ k \in 1..Len(t) : ~isna(t[k][col]) })

\* groupby aggregations 'sum', 'mean' and 'max' (missing values skipped)
agg_sum(t, col) == NotNullSum(t, col)

agg_mean(t, col) ==
    IF NotNullCount(t, col) = 0 THEN NaN
    ELSE NotNullSum(t, col) \div NotNullCount(t, col)

agg_max(t, col) == SetMax({ t[k][col] : k \in 1..Len(t) })

\* lines 125-145: one aggregated row for the rows of one date
daily_row(rows) ==
    [f \in {"data", "codigo_estacao"} \cup INMET_CLIMATE_DATA_COLS \cup FlagCols |->
        IF f \in {"data", "codigo_estacao"} THEN rows[1][f]
        ELSE IF f = "precipitacao_total" THEN agg_sum(rows, f)
        ELSE IF f \in INMET_CLIMATE_DATA_COLS THEN agg_mean(rows, f)
        ELSE agg_max(rows, f)]

Cols13 == { n.col13 : n \in { m \in ColumnNames : m.col13 # NaS } }

Flags13 == { n.flag13 : n \in ColumnNames }

\* lines 108-123 and 148-161: the columns of df_13 that are merged
snapshot_13(r) ==
    [f \in Cols13 \cup Flags13 |->
        IF f \in Cols13 THEN r[(CHOOSE n \in ColumnNames : n.col13 = f).col]
        ELSE r[(CHOOSE n \in ColumnNames : n.flag13 = f).flag]]

no_snapshot_13 == [f \in Cols13 \cup Flags13 |-> NaN]

\* df.merge(df_13[...], on='data', how='left') for one daily row: one
\* output row per matching row of df_13, or one with missing values
merge_left_13(day, df_13) ==
    LET Same(r) == r.data = day.data
        hits    == SelectSeq(df_13, Same)
    IN  IF hits = <<>> THEN << no_snapshot_13 @@ day >>
        ELSE [k \in 1..Len(hits) |-> snapshot_13(hits[k]) @@ day]

RECURSIVE merge_all_13(_, _)
merge_all_13(days, df_13) ==
    IF days = <<>> THEN <<>>
    ELSE merge_left_13(days[1], df_13) \o merge_all_13(Tail(days), df_13)

group_daily_inmet_data(t) ==
    LET hours   == [k \in 1..Len(t) |-> [t[k] EXCEPT !.hora = to_hour(@)]]
        Is13(r) == r.hora = 13
        df_13   == SelectSeq(hours, Is13)
        dates   == SortedSeqOf({ hours[k].data : k \in 1..Len(hours) })
        days    == [i \in 1..Len(dates) |->
                      LET OfDate(r) == r.data = dates[i]
                      IN  daily_row(SelectSeq(hours, OfDate))]
    IN  merge_all_13(days, df_13)

(***************************************************************************)
(* inmet_preprocessing.py: __preprocess_inmet_data                         *)
(***************************************************************************)
FloatCols ==
    INMET_CLIMATE_DATA_COLS \cup Cols13 \cup {"angstrom_index", "telicyn_index"}

\* df.round(2): float columns only
round_2(t) ==
    [k \in 1..Len(t) |->
        [f \in DOMAIN t[k] |-> IF f \in FloatCols THEN Round2(t[k][f]) ELSE t[k][f]]]

\* lines 181-189: the station's files, extracted and concatenated
concat_files(files, code) ==
    [k \in 1..Len(files.rows) |-> extract_inmet_data(files.rows[k], code)]

\* lines 194-211
grouped(files, code) ==
    group_daily_inmet_data(
        interpolate_climate(sort_values(dropna_data_hora(concat_files(files, code)))))

\* lines 212-214
with_angstrom(files, code) ==
    calculate_angstrom_risk(
        calculate_days_without_rain_inmet_data(grouped(files, code)))

\* every `raise` of the handler: a header or column set that does not
\* match (lines 38, 59, 99), lines 191-192, lines 195-196, and the
\* TypeError of utils.py line 46
preprocess_raises(files, code) ==
    \/ ~files.header_ok
    \/ all_null(concat_files(files, code), EXPECTED_INMET_DATA_COLS)
    \/ Len(dropna_data_hora(concat_files(files, code))) = 0
    \/ telicyn_flag_raises(with_angstrom(files, code))

\* the table __preprocess_inmet_data returns when it does not raise
preprocess_inmet_data(files, code) ==
    round_2(calculate_telicyn_risk(with_angstrom(files, code)))

(***************************************************************************)
(* inpe_hotspots_daily_preprocessing.py: extraction and daily aggregation  *)
(***************************************************************************)
\* lines 31-59: full state name to abbreviation
uf_mapping ==
    [n \in {"ACRE", "ALAGOAS", "AMAPA", "AMAZONAS", "BAHIA", "CEARA",
            "DISTRITO FEDERAL", "ESPIRITO SANTO", "GOIAS", "MARANHAO",
            "MATO GROSSO", "MATO GROSSO DO SUL", "MINAS GERAIS", "PARA",
            "PARAIBA", "PARANA", "PERNAMBUCO", "PIAUI", "RIO DE JANEIRO",
            "RIO GRANDE DO NORTE", "RIO GRANDE DO SUL", "RONDONIA", "RORAIMA",
            "SANTA CATARINA", "SAO PAULO", "SERGIPE", "TOCANTINS"} |->
        CASE n = "ACRE" -> "AC" [] n = "ALAGOAS" -> "AL" [] n = "AMAPA" -> "AP"
          [] n = "AMAZONAS" -> "AM" [] n = "BAHIA" -> "BA" [] n = "CEARA" -> "CE"
          [] n = "DISTRITO FEDERAL" -> "DF" [] n = "ESPIRITO SANTO" -> "ES"
          [] n = "GOIAS" -> "GO" [] n = "MARANHAO" -> "MA" [] n = "MATO GROSSO" -> "MT"
          [] n = "MATO GROSSO DO SUL" -> "MS" [] n = "MINAS GERAIS" -> "MG"
          [] n = "PARA" -> "PA" [] n = "PARAIBA" -> "PB" [] n = "PARANA" -> "PR"
          [] n = "PERNAMBUCO" -> "PE" [] n = "PIAUI" -> "PI"
          [] n = "RIO DE JANEIRO" -> "RJ" [] n = "RIO GRANDE DO NORTE" -> "RN"
          [] n = "RIO GRANDE DO SUL" -> "RS" [] n = "RONDONIA" -> "RO"
          [] n = "RORAIMA" -> "RR" [] n = "SANTA CATARINA" -> "SC"
          [] n = "SAO PAULO" -> "SP" [] n = "SERGIPE" -> "SE" [] n = "TOCANTINS" -> "TO"]

\* df['uf'].map(uf_mapping): a name without an entry becomes missing
map_uf(name) == IF name \in DOMAIN uf_mapping THEN uf_mapping[name] ELSE NaS

\* lines 71-73 on one raw row
extract_inpe_hotspots_daily_data(r) ==
    [latitude |-> r.lat, longitude |-> r.lon, data_hora |-> r.data_hora_gmt,
     satelite |-> r.satelite, municipio |-> r.municipio, uf |-> map_uf(r.estado),
     bioma |-> r.bioma]

\* df.drop_duplicates(): the first of equal rows is kept
drop_duplicates(t) ==
    LET keep == { k \in 1..Len(t) : \A j \in 1..(k - 1) : t[j] # t[k] }
    IN  [i \in 1..Cardinality(keep) |->
            t[CHOOSE k \in keep : Cardinality({ j \in keep : j < k }) = i - 1]]

\* df.dropna(subset=['data_hora'])
dropna_data_hora_inpe(t) == LET Keep(r) == ~isna(r.data_hora) IN SelectSeq(t, Keep)

\* a timestamp is 100 * day + hour; dt.strftime('%Y-%m-%d') keeps the day
to_date(data_hora) == data_hora \div 100

\* the order of strings, for the strings of the model
StrRank(x) ==
    CASE x = "ARARAS" -> 1 [] x = "SP" -> 1
      [] x = "Cerrado" -> 1 [] x = "Mata Atlantica" -> 2

GroupKey(r) == <<to_date(r.data_hora), r.municipio, r.uf, r.bioma>>

KeyLess(a, b) ==
    \/ a[1] < b[1]
    \/ a[1] = b[1] /\ StrRank(a[2]) < StrRank(b[2])
    \/ a[1] = b[1] /\ a[2] = b[2] /\ StrRank(a[3]) < StrRank(b[3])
    \/ a[1] = b[1] /\ a[2] = b[2] /\ a[3] = b[3] /\ StrRank(a[4]) < StrRank(b[4])

RECURSIVE SortedKeys(_)
SortedKeys(S) ==
    IF S = {} THEN <<>>
    ELSE LET m == CHOOSE x \in S : \A y \in S \ {x} : KeyLess(x, y)
         IN  <<m>> \o SortedKeys(S \ {m})

\* lines 140-147: groupby(['data', 'municipio', 'uf', 'bioma']) with the
\* mean of the coordinates; rows with a missing key are left out of every
\* group (groupby's dropna default); groups come out in key order
groupby_mean(t) ==
    LET HasKeys(r) == r.municipio # NaS /\ r.uf # NaS /\ r.bioma # NaS
        rows == SelectSeq(t, HasKeys)
        keys == SortedKeys({ GroupKey(rows[k]) : k \in 1..Len(rows) })
    IN  [i \in 1..Len(keys) |->
            LET InGroup(r) == GroupKey(r) = keys[i]
                g == SelectSeq(rows, InGroup)
            IN  [data |-> keys[i][1], municipio |-> keys[i][2], uf |-> keys[i][3],
                 bioma |-> keys[i][4],
                 latitude |-> agg_mean(g, "latitude"),
                 longitude |-> agg_mean(g, "longitude")]]

(***************************************************************************)
(* inpe_hotspots_daily_preprocessing.py: __find_closest_station            *)
(***************************************************************************)
\* cos^2 of the latitude, in quarters
CosSq4(lat) ==
    LET a == IF lat < 0 THEN 0 - lat ELSE lat
    IN  IF a < 15000 THEN 4 ELSE IF a < 37500 THEN 3 ELSE IF a < 52500 THEN 2 ELSE 1

\* geodesic((lat1, lon1), (lat2, lon2)).kilometers, as 4 * the squared
\* distance in units of 0.001 degree of latitude: a degree of longitude is
\* cos(latitude) of a degree of latitude.  Order and equality of distances
\* are those of the kilometres.
haversine_distance(lat1, lon1, lat2, lon2) ==
    4 * (lat1 - lat2) * (lat1 - lat2)
      + CosSq4((lat1 + lat2) \div 2) * (lon1 - lon2) * (lon1 - lon2)

\* the metric of cKDTree over the raw (latitude, longitude) pairs
kd_distance(lat1, lon1, lat2, lon2) ==
    (lat1 - lat2) * (lat1 - lat2) + (lon1 - lon2) * (lon1 - lon2)

\* station_tree.query(target_coords): the positions of the stations
\* nearest in the tree's metric (which one of equally near stations is
\* returned is the tree's choice)
tree_query(stations, lat, lon) ==
    { i \in 1..Len(stations) :
        \A j \in 1..Len(stations) :
            kd_distance(lat, lon, stations[i].latitude, stations[i].longitude)
              <= kd_distance(lat, lon, stations[j].latitude, stations[j].longitude) }

\* lines 107-116 for one event row and the position the query returned
annotate(row, stations, closest_index) ==
    SetCols(row,
        [codigo_estacao_mais_proxima |-> stations[closest_index].codigo_estacao,
         distancia_estacao_mais_proxima |->
            haversine_distance(row.latitude, row.longitude,
                               stations[closest_index].latitude,
                               stations[closest_index].longitude)])

\* the tables __find_closest_station can return
find_closest_station(t, stations) ==
    { [k \in 1..Len(t) |-> annotate(t[k], stations, idx[k])] :
        idx \in { f \in [1..Len(t) -> 1..Len(stations)] :
                    \A k \in 1..Len(t) :
                        f[k] \in tree_query(stations, t[k].latitude, t[k].longitude) } }

\* df.round(2) of line 151: the float columns are the coordinates; the
\* code and distance columns were created with None (object dtype)
round_2_inpe(t) ==
    [k \in 1..Len(t) |->
        [t[k] EXCEPT !.latitude = Round2(@), !.longitude = Round2(@)]]

\* lines 125-131
concat_inpe(files) ==
    drop_duplicates([k \in 1..Len(files) |-> extract_inpe_hotspots_daily_data(files[k])])

EXPECTED_INPE_HOTSPOTS_DAILY_DATA_COLS ==
    {"latitude", "longitude", "data_hora", "satelite", "municipio", "uf", "bioma"}

\* a cell is missing: np.nan, in a float column or in a column of strings
isnull(col, x) ==
    IF col \in {"latitude", "longitude", "data_hora"} THEN x = NaN ELSE x = NaS

\* lines 133-134 and 136-138
preprocess_inpe_raises(files) ==
    \/ \A c \in EXPECTED_INPE_HOTSPOTS_DAILY_DATA_COLS :
          \A k \in 1..Len(concat_inpe(files)) : isnull(c, concat_inpe(files)[k][c])
    \/ Len(dropna_data_hora_inpe(concat_inpe(files))) = 0

\* the tables __preprocess_inpe_hotspots_daily_data can return
preprocess_inpe_hotspots_daily_data(files, stations) ==
    { round_2_inpe(t) :
        t \in find_closest_station(
                groupby_mean(dropna_data_hora_inpe(concat_inpe(files))), stations) }

(***************************************************************************)
(* merge_preprocessing.py: merge_and_save_data                             *)
(***************************************************************************)
\* lines 18-24: the selected and renamed columns of one annotated event row
selected_inpe(e) ==
    [data |-> e.data, codigo_estacao |-> e.codigo_estacao_mais_proxima,
     distancia_estacao_mais_proxima |-> e.distancia_estacao_mais_proxima,
     latitude_foco_incendio |-> e.latitude,
     longitude_foco_incendio |-> e.longitude, bioma |-> e.bioma]

\* the event columns of a climate row without a matching event row
no_inpe ==
    [distancia_estacao_mais_proxima |-> NaN, latitude_foco_incendio |-> NaN,
     longitude_foco_incendio |-> NaN, bioma |-> NaS]

\* on=['codigo_estacao'] instead of on=['data', 'codigo_estacao']
merge_left_row_by_station(c, events) ==
    LET Same(e) == e.codigo_estacao_mais_proxima = c.codigo_estacao
        hits    == SelectSeq(events, Same)
    IN  IF hits = <<>> THEN << [foco_incendio |-> 0] @@ no_inpe @@ c >>
        ELSE [k \in 1..Len(hits) |->
                 [foco_incendio |-> 1] @@ selected_inpe(hits[k]) @@ c]

\* lines 16-33 for one climate row: one merged row per event row with
\* the same (data, codigo_estacao), '_merge' mapped to foco_incendio
merge_left_row(c, events) ==
    LET Same(e) == e.data = c.data /\ e.codigo_estacao_mais_proxima = c.codigo_estacao
        hits    == SelectSeq(events, Same)
    IN  IF hits = <<>> THEN << [foco_incendio |-> 0] @@ no_inpe @@ c >>
        ELSE [k \in 1..Len(hits) |->
                 [foco_incendio |-> 1] @@ selected_inpe(hits[k]) @@ c]

RECURSIVE merge_left(_, _)
merge_left(climate, events) ==
    IF climate = <<>> THEN <<>>
    ELSE merge_left_row(climate[1], events) \o merge_left(Tail(climate), events)

\* lines 36-37: the rows of the merged table with a station code, a
\* biome and a distance
bioma_rows(merged) ==
    { k \in 1..Len(merged) :
        /\ merged[k].bioma # NaS
        /\ ~isna(merged[k].distancia_estacao_mais_proxima) }

\* keep='last' instead of keep='first'
bioma_candidates_last(merged, code) ==
    { k \in bioma_rows(merged) :
        /\ merged[k].codigo_estacao = code
        /\ \A j \in bioma_rows(merged) :
              merged[j].codigo_estacao = code =>
                  merged[k].distancia_estacao_mais_proxima
                    >= merged[j].distancia_estacao_mais_proxima }

\* lines 38-39: sort_values(by distance) then drop_duplicates(keep='first')
\* leaves, for a station, a row of least distance (which of several rows
\* of equal distance comes first is the sort's choice)
bioma_candidates(merged, code) ==
    { k \in bioma_rows(merged) :
        /\ merged[k].codigo_estacao = code
        /\ \A j \in bioma_rows(merged) :
              merged[j].codigo_estacao = code =>
                  merged[k].distancia_estacao_mais_proxima
                    <= merged[j].distancia_estacao_mais_proxima }

CodesOf(merged) == { merged[k].codigo_estacao : k \in 1..Len(merged) }

\* the mappings bioma_mapping can be: station code -> row kept for it
bioma_mappings(merged) ==
    LET codes == { c \in CodesOf(merged) : bioma_candidates(merged, c) # {} }
    IN  { m \in [codes -> 1..Len(merged)] :
            \A c \in codes : m[c] \in bioma_candidates(merged, c) }

\* line 43: merged_df['bioma'] = merged_df['codigo_estacao'].map(...)
map_bioma(merged, m) ==
    [k \in 1..Len(merged) |->
        [merged[k] EXCEPT !.bioma =
            IF merged[k].codigo_estacao \in DOMAIN m
            THEN merged[m[merged[k].codigo_estacao]].bioma
            ELSE NaS]]

\* the tables merge_and_save_data can return
merge_and_save_data(climate, events) ==
    { map_bioma(merge_left(climate, events), m) :
        m \in bioma_mappings(merge_left(climate, events)) }

(***************************************************************************)
(* join_tables.py: risk columns of the predicted days                      *)
(***************************************************************************)
\* lines 15-19: max(0, min(relative_humidity, 100)) outside [0, 100]
correct_relative_humidity(relative_humidity) ==
    IF relative_humidity < 0 THEN 0
    ELSE IF relative_humidity > 100000 THEN 100000
    ELSE relative_humidity

\* lines 23-26
calculate_ts(temperature, relative_humidity_percentage) ==
    temperature - ((100000 - relative_humidity_percentage) \div 5)

\* lines 28-37: the count after row p of the series, rows 1..p taken in
\* the order of the table
RECURSIVE calculate_dias_sem_chuva(_, _)
calculate_dias_sem_chuva(t, p) ==
    IF p = 0 THEN 0
    ELSE IF t[p].precipitacao_total <= 2500
         THEN calculate_dias_sem_chuva(t, p - 1) + 1
         ELSE 0

\* lines 44-46: station columns joined, humidity corrected, dew point
with_dew_point(t) ==
    [p \in 1..Len(t) |->
        LET h == correct_relative_humidity(t[p].umidade_relativa)
        IN  SetCols(t[p],
               [umidade_relativa |-> h,
                temperatura_ponto_orvalho_13 |-> calculate_ts(t[p].temperatura_ar, h)])]

\* line 47
with_dias_sem_chuva(t) ==
    [p \in 1..Len(t) |->
        SetCols(t[p], [dias_sem_chuva |-> calculate_dias_sem_chuva(t, p)])]

\* lines 48-51: the renamed table given to calculate_angstrom_risk, whose
\* lines 26-27 run before line 28 reads a column the table does not have
angstrom_before_key_error(t) ==
    [p \in 1..Len(t) |->
        LET row == [umidade_relativa_13 |-> t[p].umidade_relativa,
                    temperatura_ar_13 |-> t[p].temperatura_ar] @@ t[p]
        IN  SetCols(row,
               [angstrom_index |-> angstrom_index(row),
                angstrom_risk |-> calculate_angstrom_risk_rate(angstrom_index(row))])]

(***************************************************************************)
(* Daily tables the risk calculators are applied to: the state after       *)
(* __group_daily_inmet_data, one row per date with its hour-13 snapshot.   *)
(***************************************************************************)
MaxDays == 3

Snapshot(h, t, d, hf, tf, df_) ==
    [umidade_relativa_13 |-> h, temperatura_ar_13 |-> t,
     temperatura_ponto_orvalho_13 |-> d,
     umidade_relativa_interpolacao_13 |-> hf,
     temperatura_ar_interpolacao_13 |-> tf,
     temperatura_ponto_orvalho_interpolacao_13 |-> df_]

\* hour-13 readings; the last is a date without an hour-13 reading
Snapshots ==
    { Snapshot(80000, 27000, 17000, 0, 0, 0),
      Snapshot(50000, 27000, 27000, 0, 0, 0),
      Snapshot(40000, 27000,  7000, 0, 1, 0),
      Snapshot(90000, 30000,     0, 0, 0, 1),
      Snapshot(45000, 27000, 28000, 1, 0, 0),
      Snapshot(30000, 20000, 18000, 0, 0, 0),
      Snapshot(NaN, NaN, NaN, NaN, NaN, NaN) }

Precipitations == {0, 5000}

DailyRows == { SetCols(s, [precipitacao_total |-> x]) : s \in Snapshots, x \in Precipitations }

\* tables of 1..n rows over S, the date of a row being its position
DatedTables(S, n) ==
    { [p \in 1..Len(f) |-> SetCols(f[p], [data |-> p])] :
        f \in UNION { [1..k -> S] : k \in 1..n } }

InitRisk ==
    /\ pc = "grouped"
    /\ df \in DatedTables(DailyRows, MaxDays)
    /\ raw = <<>>
    /\ station = 0
    /\ month = 0
    /\ written = {}
    /\ stations_info = <<>>
    /\ inmet_df = <<>>
    /\ inpe_df = <<>>

\* inmet_preprocessing.py line 212
CalculateDaysWithoutRain ==
    /\ pc = "grouped"
    /\ df' = calculate_days_without_rain_inmet_data(df)
    /\ pc' = "counted"
    /\ UNCHANGED <<raw, station, month, written, stations_info, inmet_df, inpe_df>>

\* inmet_preprocessing.py line 214
CalculateAngstromRisk ==
    /\ pc = "counted"
    /\ df' = calculate_angstrom_risk(df)
    /\ pc' = "angstrom"
    /\ UNCHANGED <<raw, station, month, written, stations_info, inmet_df, inpe_df>>

\* inmet_preprocessing.py line 215
CalculateTelicynRisk ==
    /\ pc = "angstrom"
    /\ IF telicyn_flag_raises(df)
       THEN /\ pc' = "TypeError"
            /\ df' = df
       ELSE /\ pc' = "telicyn"
            /\ df' = calculate_telicyn_risk(df)
    /\ UNCHANGED <<raw, station, month, written, stations_info, inmet_df, inpe_df>>

NextRisk == CalculateDaysWithoutRain \/ CalculateAngstromRisk \/ CalculateTelicynRisk

SpecRisk == InitRisk /\ [][NextRisk]_vars

(***************************************************************************)
(* Claims about the risk calculators, checked under SpecRisk.              *)
(***************************************************************************)
\* C1: after calculate_telicyn_risk, the first row's index is its raw
\* value and every later row with a dry-streak count > 0 has index
\* raw + the previous row's index; the second row already carries.
C1_TelicynCarriesFromSecondRow ==
    pc = "telicyn" =>
        \A p \in 1..Len(df) :
            df[p].telicyn_index =
                IF carries_every_row(p, df[p])
                THEN Add(telicyn_raw(df[p]), df[p - 1].telicyn_index)
                ELSE telicyn_raw(df[p])

\* C2: the dry-streak count is >= 1, is 1 on every row that follows a
\* non-dry day, and is the previous count + 1 on each subsequent dry day.
C2_DryStreakResetsAfterRain ==
    pc = "counted" =>
        \A p \in 1..Len(df) :
            /\ df[p].dias_sem_chuva >= 1
            /\ (p > 1 /\ df[p - 1].precipitacao_total # 0) => df[p].dias_sem_chuva = 1
            /\ (p > 1 /\ df[p - 1].precipitacao_total = 0 /\ df[p].precipitacao_total = 0)
                  => df[p].dias_sem_chuva = df[p - 1].dias_sem_chuva + 1

\* C9: every defined Angstrom index is categorised by the thresholds
\* > 4.0 Improvavel, [2.5, 4.0] Desfavoravel, [2.0, 2.5) Favoravel,
\* < 2.0 Provavel, so 2.5 and 4.0 are both Desfavoravel.
C9_AngstromCategories ==
    pc \in {"angstrom", "telicyn", "TypeError"} =>
        \A p \in 1..Len(df) :
            LET index == df[p].angstrom_index
                risk  == df[p].angstrom_risk
            IN  ~isna(index) =>
                  /\ index = angstrom_index(df[p])
                  /\ (index > 4000) <=> (risk = "Improvavel")
                  /\ (index >= 2500 /\ index <= 4000) <=> (risk = "Desfavoravel")
                  /\ (index >= 2000 /\ index < 2500) <=> (risk = "Favoravel")
                  /\ (index < 2000) <=> (risk = "Provavel")

\* a table holding a row at exactly 2.5 and a row at exactly 4.0, both
\* categorised Desfavoravel
C9_Witness ==
    /\ pc = "angstrom"
    /\ \E p, q \in 1..Len(df) :
          /\ df[p].angstrom_index = 2500 /\ df[p].angstrom_risk = "Desfavoravel"
          /\ df[q].angstrom_index = 4000 /\ df[q].angstrom_risk = "Desfavoravel"

(***************************************************************************)
(* process_and_save_inmet_climate_data: the loop over the stations.        *)
(***************************************************************************)
NumStations == 2

MaxRows == 3

MaxDate == 2

Reading(pr, pa, ta, to, ur, vv) ==
    [precipitacao_total |-> pr, pressao_atmosferica |-> pa, temperatura_ar |-> ta,
     temperatura_ponto_orvalho |-> to, umidade_relativa |-> ur, velocidade_vento |-> vv]

\* an hourly reading with every value, one without air temperature, and
\* one whose six values are all the sentinel
Readings ==
    { Reading(0, 950000, 30000, 20000, 40000, 2000),
      Reading(200, 940000, MissingSentinel, 21400, 90000, 1000),
      Reading(MissingSentinel, MissingSentinel, MissingSentinel,
              MissingSentinel, MissingSentinel, MissingSentinel) }

\* the date and hour cells of a raw row: hours 12:00 and 13:00 of the
\* first date, 13:00 of the later dates, and a row with both cells empty
RowKeys ==
    { [data |-> 1, hora |-> 12] }
      \cup { [data |-> d, hora |-> 13] : d \in 1..MaxDate }
      \cup { [data |-> NaN, hora |-> NaN] }

RawRows == { k @@ r : k \in RowKeys, r \in Readings }

\* what the files of one station hold: rows in file order, or a header
\* or column set that the extractors reject
StationFiles ==
    { [header_ok |-> TRUE, rows |-> rows] :
        rows \in UNION { [1..n -> RawRows] : n \in 0..MaxRows } }
      \cup { [header_ok |-> FALSE, rows |-> <<>>] }

InitInmet ==
    /\ pc = "loop"
    /\ station = 1
    /\ written = {}
    /\ df = <<>>
    /\ raw = <<>>
    /\ month = 0
    /\ stations_info = <<>>
    /\ inmet_df = <<>>
    /\ inpe_df = <<>>

\* lines 239-241: the next station's files are preprocessed; an exception
\* is not caught and ends process_and_save_inmet_climate_data
PreprocessStation ==
    /\ pc = "loop"
    /\ station <= NumStations
    /\ \E files \in StationFiles :
          /\ raw' = files
          /\ IF preprocess_raises(files, station)
             THEN /\ pc' = "aborted"
                  /\ df' = <<>>
             ELSE /\ pc' = "save"
                  /\ df' = preprocess_inmet_data(files, station)
    /\ UNCHANGED <<station, month, written, stations_info, inmet_df, inpe_df>>

\* lines 243-245: the station's table is written and appended; the loop
\* moves on and the per-station locals are dead
SaveStation ==
    /\ pc = "save"
    /\ written' = written \cup {station}
    /\ station' = station + 1
    /\ pc' = "loop"
    /\ df' = <<>>
    /\ raw' = <<>>
    /\ UNCHANGED <<month, stations_info, inmet_df, inpe_df>>

\* lines 247-255: after the last station the concatenation is saved
SaveInmet ==
    /\ pc = "loop"
    /\ station > NumStations
    /\ pc' = "done"
    /\ UNCHANGED <<df, raw, station, month, written, stations_info, inmet_df, inpe_df>>

NextInmet == PreprocessStation \/ SaveStation \/ SaveInmet

SpecInmet == InitInmet /\ [][NextInmet]_vars

(***************************************************************************)
(* Claims about the per-station aggregation, checked under SpecInmet.      *)
(***************************************************************************)
\* the cleaned hourly input of the station being processed
Cleaned == concat_files(raw, station)

DatesOf(t) == { t[k].data : k \in 1..Len(t) }

\* C3: the daily table has exactly one row per distinct date of the
\* cleaned hourly input, and the dates of consecutive rows increase strictly.
C3_OneRowPerDate ==
    pc = "save" =>
        /\ DatesOf(df) = DatesOf(Cleaned)
        /\ Len(df) = Cardinality(DatesOf(Cleaned))
        /\ \A k \in 1..(Len(df) - 1) : df[k].data < df[k + 1].data

Observed(col) == \E h \in 1..Len(Cleaned) : ~isna(Cleaned[h][col])

C5_RunContinuesAfterFailure ==
    pc = "aborted" => \A s \in 1..NumStations : s # station => s \in written

\* C6: no daily table is returned when all six climate columns are null
\* over the whole file set, nor when no row has both a date and an hour.
C6_FailsOnNullOrEmpty ==
    pc = "save" =>
        /\ ~(\A h \in 1..Len(raw.rows) : \A c \in INMET_CLIMATE_DATA_COLS :
                raw.rows[h][c] = MissingSentinel)
        /\ \E h \in 1..Len(raw.rows) :
              ~isna(raw.rows[h].data) /\ ~isna(raw.rows[h].hora)

(***************************************************************************)
(* process_and_save_inpe_hotspots_daily_data: the loop over the months.    *)
(***************************************************************************)
NumMonths == 2

MaxEvents == 2

\* station rows of inmet_stations_info_df (coordinates with two decimals)
StationSites ==
    << [codigo_estacao |-> "A801", latitude |-> -30000, longitude |-> -50900],
       [codigo_estacao |-> "A802", latitude |-> -29910, longitude |-> -51000],
       [codigo_estacao |-> "A803", latitude |-> -30090, longitude |-> -51000] >>

\* the non-empty station tables: some of the sites, in their order
StationTables ==
    { LET Picked(r) == \E i \in S : StationSites[i] = r
      IN  SelectSeq(StationSites, Picked) :
        S \in (SUBSET (1..Len(StationSites))) \ {{}} }

EventPoints ==
    { [lat |-> -30000, lon |-> -51000], [lat |-> -30004, lon |-> -51006] }

\* raw detections: 10:00 of day 1 or no timestamp, a state with and one
\* without an entry in uf_mapping, a biome or none
RawEvents ==
    { [lat |-> q.lat, lon |-> q.lon, data_hora_gmt |-> ts, satelite |-> "AQUA_M-T",
       municipio |-> "ARARAS", estado |-> e, bioma |-> b] :
        q \in EventPoints, ts \in {110, NaN}, e \in {"SAO PAULO", "EXTERIOR"},
        b \in {"Cerrado", NaS} }

MonthFiles == UNION { [1..n -> RawEvents] : n \in 0..MaxEvents }

InitInpe ==
    /\ pc = "loop"
    /\ month = 1
    /\ written = {}
    /\ df = <<>>
    /\ raw = <<>>
    /\ station = 0
    /\ stations_info \in StationTables
    /\ inmet_df = <<>>
    /\ inpe_df = <<>>

\* lines 164-166: the next month's files are preprocessed; an exception
\* is not caught and ends process_and_save_inpe_hotspots_daily_data
PreprocessMonth ==
    /\ pc = "loop"
    /\ month <= NumMonths
    /\ \E files \in MonthFiles :
          /\ raw' = files
          /\ IF preprocess_inpe_raises(files)
             THEN /\ pc' = "aborted"
                  /\ df' = <<>>
             ELSE /\ pc' = "save"
                  /\ df' \in preprocess_inpe_hotspots_daily_data(files, stations_info)
    /\ UNCHANGED <<station, month, written, stations_info, inmet_df, inpe_df>>

\* lines 168-170
SaveMonth ==
    /\ pc = "save"
    /\ written' = written \cup {month}
    /\ month' = month + 1
    /\ pc' = "loop"
    /\ df' = <<>>
    /\ raw' = <<>>
    /\ UNCHANGED <<station, stations_info, inmet_df, inpe_df>>

\* lines 172-176
SaveInpe ==
    /\ pc = "loop"
    /\ month > NumMonths
    /\ pc' = "done"
    /\ UNCHANGED <<df, raw, station, month, written, stations_info, inmet_df, inpe_df>>

NextInpe == PreprocessMonth \/ SaveMonth \/ SaveInpe

SpecInpe == InitInpe /\ [][NextInpe]_vars

(***************************************************************************)
(* Claims about the nearest-station annotation, checked under SpecInpe.    *)
(***************************************************************************)
\* the rows of the station table that carry a station code
StationRows(code) ==
    { i \in 1..Len(stations_info) : stations_info[i].codigo_estacao = code }

\* the aggregated event rows the locator is given for the current month
Aggregated == groupby_mean(dropna_data_hora_inpe(concat_inpe(raw)))

\* C7: the station assigned to an aggregated event row is a station of
\* minimal geodesic distance to the event: no station is strictly closer.
C7_NearestByGeodesic ==
    pc = "save" =>
        \A k \in 1..Len(df) :
            \E i \in StationRows(df[k].codigo_estacao_mais_proxima) :
                \A j \in 1..Len(stations_info) :
                    haversine_distance(Aggregated[k].latitude, Aggregated[k].longitude,
                                       stations_info[i].latitude,
                                       stations_info[i].longitude)
                      <= haversine_distance(Aggregated[k].latitude, Aggregated[k].longitude,
                                            stations_info[j].latitude,
                                            stations_info[j].longitude)

\* C8: the recorded distance of an annotated event row is the geodesic
\* distance between the row's coordinates and the coordinates the station
\* table holds for the recorded station code.
C8_DistanceOfRecordedStation ==
    pc = "save" =>
        \A k \in 1..Len(df) :
            \E i \in StationRows(df[k].codigo_estacao_mais_proxima) :
                df[k].distancia_estacao_mais_proxima
                  = haversine_distance(df[k].latitude, df[k].longitude,
                                       stations_info[i].latitude,
                                       stations_info[i].longitude)

(***************************************************************************)
(* merge_and_save_data applied to the concatenated tables of main.py.      *)
(***************************************************************************)
MaxMergeDate == 2

MaxAnnotated == 2

MergeStations == {"A801", "A802"}

\* a station's daily rows: dates 1..n in order
ClimateRows(code, n) == [d \in 1..n |-> [data |-> d, codigo_estacao |-> code]]

\* inmet_df: the stations' tables concatenated, at least one row
ClimateTables ==
    { ClimateRows("A801", a) \o ClimateRows("A802", b) :
        a \in 0..MaxMergeDate, b \in 0..MaxMergeDate } \ {<<>>}

\* annotated event rows as __preprocess_inpe_hotspots_daily_data returns
\* them: biome, station code and distance are never missing
AnnotatedEvents ==
    { [data |-> d, municipio |-> "ARARAS", uf |-> "SP", bioma |-> b,
       latitude |-> p.latitude, longitude |-> p.longitude,
       codigo_estacao_mais_proxima |-> c,
       distancia_estacao_mais_proxima |-> p.distancia] :
        d \in 1..MaxMergeDate, b \in {"Cerrado", "Mata Atlantica"},
        c \in MergeStations,
        p \in { [latitude |-> -30000, longitude |-> -51000, distancia |-> 32400],
                [latitude |-> -30000, longitude |-> -51010, distancia |-> 29690] } }

InitMerge ==
    /\ pc = "merge"
    /\ inmet_df \in ClimateTables
    /\ inpe_df \in UNION { [1..n -> AnnotatedEvents] : n \in 0..MaxAnnotated }
    /\ df = <<>>
    /\ raw = <<>>
    /\ station = 0
    /\ month = 0
    /\ written = {}
    /\ stations_info = <<>>

\* main.py line 19
MergeAndSave ==
    /\ pc = "merge"
    /\ df' \in merge_and_save_data(inmet_df, inpe_df)
    /\ pc' = "merged"
    /\ UNCHANGED <<raw, station, month, written, stations_info, inmet_df, inpe_df>>

NextMerge == MergeAndSave

SpecMerge == InitMerge /\ [][NextMerge]_vars

(***************************************************************************)
(* Claims about the merge, checked under SpecMerge.                        *)
(***************************************************************************)
\* the event rows matched to station `code`: an input climate row has the
\* event's date and the event's nearest station is `code`
MatchedEvents(code) ==
    { j \in 1..Len(inpe_df) :
        /\ inpe_df[j].codigo_estacao_mais_proxima = code
        /\ inpe_df[j].bioma # NaS
        /\ ~isna(inpe_df[j].distancia_estacao_mais_proxima)
        /\ \E i \in 1..Len(inmet_df) :
              /\ inmet_df[i].codigo_estacao = code
              /\ inmet_df[i].data = inpe_df[j].data }

\* C10: every merged row of a station with a matched event carries the
\* biome of a matched event of least distance over all dates; rows of a
\* station without matched events keep the biome the join gave them.
C10_BiomaOfClosestEvent ==
    pc = "merged" =>
        /\ Len(df) = Len(merge_left(inmet_df, inpe_df))
        /\ \A k \in 1..Len(df) :
              LET matched == MatchedEvents(df[k].codigo_estacao)
              IN  IF matched # {}
                  THEN \E j \in matched :
                          /\ \A i \in matched :
                                inpe_df[j].distancia_estacao_mais_proxima
                                  <= inpe_df[i].distancia_estacao_mais_proxima
                          /\ df[k].bioma = inpe_df[j].bioma
                  ELSE df[k].bioma = merge_left(inmet_df, inpe_df)[k].bioma

\* a station with a nearer and a farther matched event of different
\* biomes, and a day of that station without a fire that carries the
\* nearer event's biome
C10_Witness ==
    /\ pc = "merged"
    /\ \E k \in 1..Len(df) :
          \E j, i \in MatchedEvents(df[k].codigo_estacao) :
              /\ inpe_df[j].distancia_estacao_mais_proxima
                   < inpe_df[i].distancia_estacao_mais_proxima
              /\ inpe_df[j].bioma # inpe_df[i].bioma
              /\ df[k].foco_incendio = 0
              /\ df[k].bioma = inpe_df[j].bioma

\* an annotated event row exists with the date and, as nearest station,
\* the station of merged row r
EventExists(r) ==
    \E j \in 1..Len(inpe_df) :
        /\ inpe_df[j].data = r.data
        /\ inpe_df[j].codigo_estacao_mais_proxima = r.codigo_estacao

\* C11: every daily climate row of the input appears at least once in the
\* merged table, and a merged row has foco_incendio true exactly when an
\* annotated event row exists with its date and station; otherwise false.
C11_FireFlagIffEventExists ==
    pc = "merged" =>
        /\ \A i \in 1..Len(inmet_df) :
              \E k \in 1..Len(df) :
                  /\ df[k].data = inmet_df[i].data
                  /\ df[k].codigo_estacao = inmet_df[i].codigo_estacao
        /\ \A k \in 1..Len(df) :
              /\ df[k].foco_incendio \in {0, 1}
              /\ df[k].foco_incendio = 1 <=> EventExists(df[k])

\* a station with a day with a fire and a day without, while an event of
\* another date exists for that station
C11_Witness ==
    /\ pc = "merged"
    /\ \E k, l \in 1..Len(df) :
          /\ df[k].codigo_estacao = df[l].codigo_estacao
          /\ df[k].foco_incendio = 1
          /\ df[l].foco_incendio = 0
          /\ EventExists(df[k])
          /\ ~EventExists(df[l])

\* C17: the merged table has exactly one row per (station, date) of the
\* daily climate table, whatever the annotated events are.
C17_OneRowPerStationDay ==
    pc = "merged" =>
        /\ Len(df) = Len(inmet_df)
        /\ \A k, l \in 1..Len(df) :
              (df[k].codigo_estacao = df[l].codigo_estacao /\ df[k].data = df[l].data)
                  => k = l

(***************************************************************************)
(* Further claims about the risk calculators, checked under SpecRisk.      *)
(***************************************************************************)
\* C12: in the table the calculators return, a row whose hour-13
\* temperature or humidity is missing has a missing Angstrom category and
\* a row whose hour-13 temperature or dew point is missing has a missing
\* Telicyn category, never a named category.
C12_MissingSnapshotHasNoCategory ==
    pc = "telicyn" =>
        \A p \in 1..Len(df) :
            /\ (isna(df[p].temperatura_ar_13) \/ isna(df[p].umidade_relativa_13))
                  => df[p].angstrom_risk = NaS
            /\ (isna(df[p].temperatura_ar_13) \/ isna(df[p].temperatura_ponto_orvalho_13))
                  => df[p].telicyn_risk = NaS

\* C14: a row's Telicyn interpolation flag is a boolean that is true
\* exactly when its hour-13 air-temperature flag or its hour-13 dew-point
\* flag is true, or the previous row's Telicyn flag was carried into it;
\* the dew-point temperature value plays no part.
C14_TelicynFlagFromFlagsOnly ==
    pc = "telicyn" =>
        \A p \in 1..Len(df) :
            /\ df[p].telicyn_interpolacao \in {0, 1}
            /\ df[p].telicyn_interpolacao = 1
                 <=> \/ df[p].temperatura_ar_interpolacao_13 = 1
                     \/ df[p].temperatura_ponto_orvalho_interpolacao_13 = 1
                     \/ (carries(p, df[p]) /\ df[p - 1].telicyn_interpolacao = 1)

\* a row without an hour-13 snapshot
NoSnapshot(row) ==
    isna(row.temperatura_ar_13) /\ isna(row.temperatura_ponto_orvalho_13)

\* C15: once calculate_telicyn_risk has run, every row that comes after a
\* day without an hour-13 snapshot and has its own hour-13 temperature and
\* dew point has a defined Telicyn index.
C15_MissingSnapshotStaysLocal ==
    pc \in {"telicyn", "TypeError"} =>
        \A p \in 1..Len(df) :
            ( /\ \E q \in 1..(p - 1) : NoSnapshot(df[q])
              /\ ~isna(df[p].temperatura_ar_13)
              /\ ~isna(df[p].temperatura_ponto_orvalho_13) )
                => /\ pc = "telicyn"
                   /\ ~isna(df[p].telicyn_index)

(***************************************************************************)
(* Claims about the daily event aggregation, checked under SpecInpe.       *)
(***************************************************************************)
\* the rows of the month's returned table that hold the group of raw
\* event r: its date, municipality, mapped state and biome
GroupRowsOf(r) ==
    { i \in 1..Len(df) :
        /\ df[i].data = to_date(r.data_hora_gmt)
        /\ df[i].municipio = r.municipio
        /\ df[i].uf = map_uf(r.estado)
        /\ df[i].bioma = r.bioma }

\* C16: every raw event row with a timestamp contributes to exactly one
\* aggregated row, that of its (date, municipality, state, biome) group,
\* also when its state has no entry in the lookup or its biome is missing.
C16_NoEventLost ==
    pc = "save" =>
        \A k \in 1..Len(raw) :
            ~isna(raw[k].data_hora_gmt) => Cardinality(GroupRowsOf(raw[k])) = 1

(***************************************************************************)
(* join_tables.py run on the pivoted predictions of all stations.          *)
(***************************************************************************)
MaxPredictedDays == 2

\* a predicted day: precipitation, air temperature, relative humidity (the
\* forecast may leave [0, 100])
PredictedDays ==
    { [precipitacao_total |-> x, temperatura_ar |-> 27000, umidade_relativa |-> h] :
        x \in {0, 5000}, h \in {80000, 104000} }

\* the predicted days of one station, dated 1..n
PredictedRows(code, n) ==
    { [d \in 1..n |-> SetCols(f[d], [codigo_estacao |-> code, data |-> d])] :
        f \in [1..n -> PredictedDays] }

\* df_pivot: pivot(index=['codigo_estacao', 'data']) orders the rows by
\* station and date
PivotTables ==
    { a \o b : a \in UNION { PredictedRows("A801", n) : n \in 0..MaxPredictedDays },
               b \in UNION { PredictedRows("A802", n) : n \in 0..MaxPredictedDays } }
      \ {<<>>}

InitJoin ==
    /\ pc = "pivot"
    /\ df \in PivotTables
    /\ raw = <<>>
    /\ station = 0
    /\ month = 0
    /\ written = {}
    /\ stations_info = <<>>
    /\ inmet_df = <<>>
    /\ inpe_df = <<>>

\* join_tables.py lines 44-46
JoinDewPoint ==
    /\ pc = "pivot"
    /\ df' = with_dew_point(df)
    /\ pc' = "dew_point"
    /\ UNCHANGED <<raw, station, month, written, stations_info, inmet_df, inpe_df>>

\* join_tables.py line 47
JoinDiasSemChuva ==
    /\ pc = "dew_point"
    /\ df' = with_dias_sem_chuva(df)
    /\ pc' = "counted"
    /\ UNCHANGED <<raw, station, month, written, stations_info, inmet_df, inpe_df>>

\* join_tables.py lines 48-51: calculate_angstrom_risk raises KeyError at
\* utils.py line 28 and the script ends before calculate_telicyn_risk
JoinAngstromRisk ==
    /\ pc = "counted"
    /\ df' = angstrom_before_key_error(df)
    /\ pc' = "KeyError"
    /\ UNCHANGED <<raw, station, month, written, stations_info, inmet_df, inpe_df>>

NextJoin == JoinDewPoint \/ JoinDiasSemChuva \/ JoinAngstromRisk

SpecJoin == InitJoin /\ [][NextJoin]_vars

(***************************************************************************)
(* Claims about the independence of stations, checked under SpecJoin.      *)
(***************************************************************************)
\* the rows of station `code` alone, in their order
OwnRows(code) == LET Own(r) == r.codigo_estacao = code IN SelectSeq(df, Own)

\* C13: the dry-streak count of every row of a station is the count that
\* the station's own rows give when they are counted alone; the first row
\* of a station takes nothing over from the last row of another station.
C13_StationsIndependent ==
    pc \in {"counted", "KeyError"} =>
        \A code \in { df[p].codigo_estacao : p \in 1..Len(df) } :
            \A k \in 1..Len(OwnRows(code)) :
                OwnRows(code)[k].dias_sem_chuva
                  = calculate_dias_sem_chuva(OwnRows(code), k)

====
